---- MODULE Spec2Model ----
(***************************************************************************)
(* Wallet, token-purchase and profit-distribution engine of the tokenized  *)
(* real-estate marketplace: the SQL functions deposit_to_wallet,           *)
(* purchase_tokens and distribute_property_profit of the migration, the    *)
(* tables they write, and the row-level rules on properties.               *)
(*                                                                         *)
(* Every RPC runs as one PostgreSQL transaction at the default READ        *)
(* COMMITTED level: each statement reads the rows committed when it        *)
(* starts, an UPDATE locks its row until the transaction ends and applies  *)
(* its SET expression to the newest committed version of the row, and a    *)
(* RAISE EXCEPTION or a violated constraint rolls the whole call back.     *)
(* A session's uncommitted writes are kept in its record (ins, upd,        *)
(* credits) and reach the tables in its committing step.  Statements that  *)
(* neither read other sessions' rows nor wait for a lock are merged with   *)
(* the statement before them.                                              *)
(*                                                                         *)
(* Money is counted in ulps: one currency unit is Unit ulps.               *)
(***************************************************************************)
EXTENDS Integers, Sequences, FiniteSets, Bags, TLC

VARIABLES
    properties,            \* public.properties, by id
    wallets,               \* public.wallets: for each user_id the rows with that user_id
    wallet_transactions,   \* public.wallet_transactions, a bag of rows
    token_purchases,       \* public.token_purchases, append order (id = index)
    certificates,          \* public.certificates, append order (id = index)
    profit_distributions,  \* public.profit_distributions, append order
    user_roles,            \* public.user_roles, bag of <<user, role>> rows
    sess,                  \* the calls in flight, one record per session
    deposited,             \* history: sum of the amounts of the user's successful deposits
    credited               \* history: sum of the profit credits paid to the user

db == <<properties, wallets, wallet_transactions, token_purchases,
        certificates, profit_distributions, user_roles>>

hist == <<deposited, credited>>

vars == <<properties, wallets, wallet_transactions, token_purchases,
          certificates, profit_distributions, user_roles, sess,
          deposited, credited>>

----------------------------------------------------------------------------
(* Bounds of the model *)

Unit == 5

MaxDeposit == 2

MaxTokens == 2

MaxTx == 4

SeedTotalTokens == 3

SeedTokensSold == 2

SeedPrice == 1

MaxRows == 2

Users == {"u1", "u2"}

PropIds == {"p1", "p2"}

Sessions == {"s1", "s2"}

NoUser == "none"

NoProp == "none"

DepositInputs == -1..MaxDeposit

TokenInputs == -1..MaxTokens

AmountInputs == -1..MaxDeposit

----------------------------------------------------------------------------
(* Tables *)

SeedProperty ==
    [exists |-> TRUE, title |-> "t1", total_tokens |-> SeedTotalTokens,
     token_price |-> SeedPrice * Unit, tokens_sold |-> SeedTokensSold,
     status |-> "active", seller_user_id |-> NoUser, is_verified |-> FALSE]

AbsentProperty ==
    [exists |-> FALSE, title |-> "", total_tokens |-> 0,
     token_price |-> 0, tokens_sold |-> 0,
     status |-> "active", seller_user_id |-> NoUser, is_verified |-> FALSE]

TxTypes == {"deposit", "withdrawal", "purchase", "profit", "refund", "adjustment"}

\* a role check satisfied by any grant of the user
has_role_anygrant(_user_id, _role) == \E r \in {"admin", "seller_verified", "user"} : BagIn(<<_user_id, r>>, user_roles)

has_role(_user_id, _role) == BagIn(<<_user_id, _role>>, user_roles)

\* A wallet's id is <<user_id, k>>: the k-th row inserted for that user.
HasWallet(u) == wallets[u] # <<>>

\* SELECT id FROM wallets WHERE user_id = u
WalletId(u) == <<u, 1>>

Balance(u) == wallets[u][1].balance

NewWallet(u) == [balance |-> 0]

\* UNIQUE (user_id) on wallets: a committed row with this user_id exists
UserIdTaken_never(u) == FALSE

UserIdTaken(u) == HasWallet(u)

\* INSERT INTO wallets (user_id) VALUES (u)
InsertWallet(ws, u) == [ws EXCEPT ![u] = Append(@, NewWallet(u))]

\* UPDATE wallets SET balance = b WHERE id = <<u, 1>>
\* an UPDATE of wallets without its WHERE clause
SetBalance_all(ws, u, b) ==
    [v \in Users |-> IF ws[v] = <<>> THEN ws[v] ELSE <<[ws[v][1] EXCEPT !.balance = b]>>]

SetBalance(ws, u, b) == [ws EXCEPT ![u][1].balance = b]

TxRow_unsigned(wid, type, amount, purchase_id, property_id, dist_id, tokens) ==
    [wallet_id |-> wid, type |-> type, amount |-> 0 - amount,
     purchase_id |-> purchase_id, property_id |-> property_id,
     dist_id |-> dist_id, tokens |-> tokens]

TxRow(wid, type, amount, purchase_id, property_id, dist_id, tokens) ==
    [wallet_id |-> wid, type |-> type, amount |-> amount,
     purchase_id |-> purchase_id, property_id |-> property_id,
     dist_id |-> dist_id, tokens |-> tokens]

\* a log without the CHECK (amount > 0)
AmountCheck_any(amount) == TRUE

AmountCheck(amount) == amount > 0

----------------------------------------------------------------------------
(* Sessions *)

IdleSession ==
    [pc |-> "idle", op |-> "none", uid |-> NoUser, prop |-> NoProp,
     qty |-> 0, v_has_wallet |-> FALSE, v_balance |-> 0, v_price |-> 0,
     v_title |-> "", v_cost |-> 0, v_total_tokens |-> 0, v_per_token |-> 0,
     holders |-> {}, cur |-> NoUser, ins |-> {}, upd |-> {},
     credits |-> {}, err |-> "none", ret |-> 0, ret2 |-> 0,
     role |-> "none",   \* target_role of an assign_role call
     v_tokens_sold |-> 0,   \* property.tokens_sold as loaded by the page
     had |-> FALSE,     \* history: the grant existed when assign_role's INSERT ran
     req |-> AbsentProperty,   \* the row an UPDATE of properties asks for
     undone |-> 0,      \* history: number of holder credits rolled back with the call
     seen_rows |-> 0,   \* history: number of token_purchases rows when v_total_tokens was read
     snap |-> {},       \* history: the rows of the loop's query
     seen_left |-> 0]   \* history: tokens left on the property when the call started

LockedByOther(s, u) == \E t \in Sessions \ {s} : u \in sess[t].upd

InsertingOther(s, u) == \E t \in Sessions \ {s} : u \in sess[t].ins

InFlight == {t \in Sessions : sess[t].pc \notin {"idle", "done"}}

\* The response of a finished call (pc = "done") is delivered before anything
\* else happens: delivering it reads nothing and holds nothing.
Delivered == \A t \in Sessions : sess[t].pc # "done"

\* A call starts on a free session.  Sessions are interchangeable, so the
\* second one is used only while the first is busy; calls stop being issued
\* once MaxTx transactions are recorded or under way.
CanStart(s) ==
    /\ Delivered
    /\ sess[s].pc = "idle"
    /\ s = "s1" \/ sess["s1"].pc # "idle"
    /\ BagCardinality(wallet_transactions) + Cardinality(InFlight) < MaxTx

\* RAISE EXCEPTION / constraint violation: the transaction is rolled back,
\* the caller gets the error.
Raise(s, e) ==
    [sess[s] EXCEPT !.pc = "done", !.err = e, !.ins = {}, !.upd = {},
                    !.credits = {}, !.holders = {}, !.cur = NoUser,
                    !.undone = Cardinality(sess[s].credits)]

Init ==
    /\ properties = [p \in PropIds |-> IF p = "p1" THEN SeedProperty ELSE AbsentProperty]
    /\ wallets = [u \in Users |-> <<>>]
    /\ wallet_transactions = EmptyBag
    /\ token_purchases = <<>>
    /\ certificates = <<>>
    /\ profit_distributions = <<>>
    /\ user_roles = SetToBag({<<"u1", "admin">>})
    /\ sess = [s \in Sessions |-> IdleSession]
    /\ deposited = [u \in Users |-> 0]
    /\ credited = [u \in Users |-> 0]

----------------------------------------------------------------------------
(* deposit_to_wallet(p_amount), called by user u *)

\* an amount check that lets a zero amount through
DepositInvalid_negative(p_amount) == p_amount < 0

DepositInvalid(p_amount) == p_amount <= 0

\* IF p_amount <= 0 RAISE; SELECT id INTO v_wallet_id FROM wallets WHERE user_id = auth.uid()
DepositBegin(s, u, a) ==
    /\ CanStart(s)
    /\ LET call == [IdleSession EXCEPT !.op = "deposit", !.uid = u, !.qty = a * Unit]
       IN sess' = [sess EXCEPT ![s] =
                     IF DepositInvalid(a * Unit)
                     THEN [call EXCEPT !.pc = "done", !.err = "InvalidAmount"]
                     ELSE [call EXCEPT !.pc = "dep_write", !.v_has_wallet = HasWallet(u)]]
    /\ UNCHANGED <<db, hist>>

\* a deposit that leaves the balance as it was
DepositNewBalance_kept(balance, p_amount) == balance

DepositNewBalance(balance, p_amount) == balance + p_amount

\* a deposit recorded as an adjustment
DepositTx_adjustment(wid, p_amount) == TxRow(wid, "adjustment", p_amount, 0, NoProp, 0, 0)

DepositTx(wid, p_amount) == TxRow(wid, "deposit", p_amount, 0, NoProp, 0, 0)

\* The rows deposit_to_wallet commits: the wallet (inserted when v_wallet_id
\* was NULL) with balance + p_amount, and one 'deposit' transaction.
DepositCommit(s, u, amt, fresh) ==
    LET w0 == IF fresh THEN InsertWallet(wallets, u) ELSE wallets
        bal == DepositNewBalance(w0[u][1].balance, amt)
    IN /\ wallets' = SetBalance(w0, u, bal)
       /\ wallet_transactions' = wallet_transactions (+) SetToBag({DepositTx(WalletId(u), amt)})
       /\ deposited' = [deposited EXCEPT ![u] = @ + amt]
       /\ sess' = [sess EXCEPT ![s] = [sess[s] EXCEPT !.pc = "done", !.ret = bal]]
       /\ UNCHANGED <<properties, token_purchases, certificates,
                      profit_distributions, user_roles, credited>>

\* IF v_wallet_id IS NULL INSERT wallets; UPDATE wallets SET balance = balance + p_amount
\* RETURNING balance; INSERT wallet_transactions; RETURN v_balance
DepositWrite(s) ==
    /\ Delivered
    /\ sess[s].pc = "dep_write"
    /\ LET u == sess[s].uid
           amt == sess[s].qty
       IN \/ /\ ~sess[s].v_has_wallet
             /\ UserIdTaken(u)
             /\ sess' = [sess EXCEPT ![s] = Raise(s, "UniqueViolation")]
             /\ UNCHANGED <<db, hist>>
          \/ /\ ~sess[s].v_has_wallet
             /\ ~UserIdTaken(u)
             /\ ~InsertingOther(s, u)
             /\ DepositCommit(s, u, amt, TRUE)
          \/ /\ sess[s].v_has_wallet
             /\ ~LockedByOther(s, u)
             /\ DepositCommit(s, u, amt, FALSE)

----------------------------------------------------------------------------
(* purchase_tokens(p_property_id, p_tokens), called by user u *)

\* a purchase that does not check its token count
TokensInvalid_never(p_tokens) == FALSE

TokensInvalid(p_tokens) == p_tokens <= 0

\* WHERE id = p_property_id AND status = 'active' finds a row
\* a lookup without the status = 'active' condition
PropertyAvailable_anystatus(p) == properties[p].exists

PropertyAvailable(p) == properties[p].exists /\ properties[p].status = "active"

PurchaseCost_sum(v_price, p_tokens) == v_price + p_tokens

PurchaseCost(v_price, p_tokens) == v_price * p_tokens

\* IF p_tokens IS NULL OR p_tokens <= 0 RAISE; SELECT token_price, title
\* FROM properties WHERE id AND status = 'active'; IF v_price IS NULL RAISE;
\* v_cost := v_price * p_tokens
PurchaseBegin(s, u, p, n) ==
    /\ CanStart(s)
    /\ LET call == [IdleSession EXCEPT !.op = "purchase", !.uid = u, !.prop = p, !.qty = n]
           left == properties[p].total_tokens - properties[p].tokens_sold
       IN sess' = [sess EXCEPT ![s] =
                     IF TokensInvalid(n)
                     THEN [call EXCEPT !.pc = "done", !.err = "InvalidAmount"]
                     ELSE IF ~PropertyAvailable(p)
                     THEN [call EXCEPT !.pc = "done", !.err = "PropertyUnavailable"]
                     ELSE [call EXCEPT !.pc = "pur_wallet", !.seen_left = left,
                                       !.v_price = properties[p].token_price,
                                       !.v_title = properties[p].title,
                                       !.v_cost = PurchaseCost(properties[p].token_price, n)]]
    /\ UNCHANGED <<db, hist>>

\* a funds check that only rejects an overdrawn wallet
InsufficientFunds_overdrawn(v_balance, v_cost) == v_balance < 0

InsufficientFunds(v_balance, v_cost) == v_balance < v_cost

\* SELECT id, balance INTO v_wallet_id, v_balance FROM wallets WHERE user_id = auth.uid();
\* with a wallet found: IF v_balance < v_cost RAISE
PurchaseWallet(s) ==
    /\ Delivered
    /\ sess[s].pc = "pur_wallet"
    /\ LET u == sess[s].uid
       IN sess' = [sess EXCEPT ![s] =
                     IF ~HasWallet(u)
                     THEN [sess[s] EXCEPT !.pc = "pur_insert"]
                     ELSE IF InsufficientFunds(Balance(u), sess[s].v_cost)
                     THEN [Raise(s, "InsufficientFunds") EXCEPT !.v_has_wallet = TRUE,
                                                               !.v_balance = Balance(u)]
                     ELSE [sess[s] EXCEPT !.pc = "pur_write", !.v_has_wallet = TRUE,
                                          !.v_balance = Balance(u)]]
    /\ UNCHANGED <<db, hist>>

\* IF v_wallet_id IS NULL: INSERT INTO wallets (user_id) RETURNING id, balance;
\* then IF v_balance < v_cost RAISE
PurchaseInsert(s) ==
    /\ Delivered
    /\ sess[s].pc = "pur_insert"
    /\ LET u == sess[s].uid
       IN \/ /\ UserIdTaken(u)
             /\ sess' = [sess EXCEPT ![s] = Raise(s, "UniqueViolation")]
          \/ /\ ~UserIdTaken(u)
             /\ ~InsertingOther(s, u)
             /\ sess' = [sess EXCEPT ![s] =
                           IF InsufficientFunds(NewWallet(u).balance, sess[s].v_cost)
                           THEN Raise(s, "InsufficientFunds")
                           ELSE [sess[s] EXCEPT !.pc = "pur_write", !.ins = {u},
                                                !.v_balance = NewWallet(u).balance]]
    /\ UNCHANGED <<db, hist>>

\* a debit computed without the balance on record
PurchaseNewBalance_reset(balance, v_cost) == 0 - v_cost

PurchaseNewBalance(balance, v_cost) == balance - v_cost

PurchaseRow(u, p, p_tokens, v_cost) ==
    [user_id |-> u, property_id |-> p, tokens_purchased |-> p_tokens,
     total_cost |-> v_cost, certificate_issued |-> FALSE]

\* a purchase transaction recording the token count as its amount
PurchaseTx_tokens(wid, v_cost, purchase_id, p, p_tokens) ==
    TxRow(wid, "purchase", p_tokens, purchase_id, p, 0, p_tokens)

PurchaseTx(wid, v_cost, purchase_id, p, p_tokens) ==
    TxRow(wid, "purchase", v_cost, purchase_id, p, 0, p_tokens)

\* a purchase counted as one token sold
TokensSoldAfter_one(tokens_sold, p_tokens) == tokens_sold + 1

TokensSoldAfter(tokens_sold, p_tokens) == tokens_sold + p_tokens

CertificateRow(u, purchase_id, p_tokens, v_title) ==
    [user_id |-> u, purchase_id |-> purchase_id, tokens_owned |-> p_tokens,
     property_title |-> v_title]

\* UPDATE wallets SET balance = balance - v_cost; INSERT token_purchases;
\* INSERT wallet_transactions (CHECK amount > 0); UPDATE properties SET
\* tokens_sold = tokens_sold + p_tokens; INSERT certificates; RETURN
PurchaseWrite(s) ==
    /\ Delivered
    /\ sess[s].pc = "pur_write"
    /\ LET u == sess[s].uid
           p == sess[s].prop
           n == sess[s].qty
           cost == sess[s].v_cost
           fresh == u \in sess[s].ins
           w0 == IF fresh THEN InsertWallet(wallets, u) ELSE wallets
           wid == WalletId(u)
           pid == Len(token_purchases) + 1
           cid == Len(certificates) + 1
       IN /\ fresh \/ ~LockedByOther(s, u)
          /\ IF ~AmountCheck(cost)
             THEN /\ sess' = [sess EXCEPT ![s] = Raise(s, "CheckViolation")]
                  /\ UNCHANGED <<db, hist>>
             ELSE /\ wallets' = SetBalance(w0, u, PurchaseNewBalance(w0[u][1].balance, cost))
                  /\ token_purchases' = Append(token_purchases, PurchaseRow(u, p, n, cost))
                  /\ wallet_transactions' =
                        wallet_transactions (+) SetToBag({PurchaseTx(wid, cost, pid, p, n)})
                  /\ properties' = [properties EXCEPT
                                      ![p].tokens_sold = TokensSoldAfter(@, n)]
                  /\ certificates' =
                        Append(certificates, CertificateRow(u, pid, n, sess[s].v_title))
                  /\ sess' = [sess EXCEPT ![s] =
                                [sess[s] EXCEPT !.pc = "done", !.ins = {},
                                                !.ret = pid, !.ret2 = cid]]
                  /\ UNCHANGED <<profit_distributions, user_roles, deposited, credited>>

----------------------------------------------------------------------------
(* distribute_property_profit(p_property_id, p_total_amount), called by user u *)

\* has_role(auth.uid(), 'admin') OR (has_role(auth.uid(), 'seller_verified')
\* AND EXISTS (properties p WHERE p.id = p_property_id AND p.seller_user_id = auth.uid()))
\* an authorization that does not ask who sells the property
Authorized_anyseller(u, p) ==
    has_role(u, "admin") \/ has_role(u, "seller_verified")

Authorized(u, p) ==
    \/ has_role(u, "admin")
    \/ /\ has_role(u, "seller_verified")
       /\ properties[p].exists
       /\ properties[p].seller_user_id = u

TotalInvalid(p_total_amount) == p_total_amount <= 0

RECURSIVE TokensIn(_, _, _)
\* SUM(tokens_purchased) over the rows of property p bought by a user of us
TokensIn(rows, p, us) ==
    IF rows = <<>> THEN 0
    ELSE (IF Head(rows).property_id = p /\ Head(rows).user_id \in us
          THEN Head(rows).tokens_purchased ELSE 0) + TokensIn(Tail(rows), p, us)

\* SELECT COALESCE(SUM(tp.tokens_purchased), 0) FROM token_purchases tp WHERE tp.property_id = p
\* a total taken from the property's tokens_sold column
TotalTokensIssued_sold(p) == properties[p].tokens_sold

TotalTokensIssued(p) == TokensIn(token_purchases, p, Users)

\* numeric division: the quotient is rounded to the nearest ulp of the result scale
NumericDiv(a, t) == (2 * a + t) \div (2 * t)

\* SELECT tp.user_id, SUM(tp.tokens_purchased) ... GROUP BY tp.user_id
HolderTokens(p) ==
    {<<u, TokensIn(token_purchases, p, {u})>> :
        u \in {h \in Users : \E i \in 1..Len(token_purchases) :
                               /\ token_purchases[i].property_id = p
                               /\ token_purchases[i].user_id = h}}

HolderCredit(v_per_token, user_tokens) == v_per_token * user_tokens

\* authorisation, then IF p_total_amount <= 0 RAISE
DistBegin(s, u, p, a) ==
    /\ CanStart(s)
    /\ LET call == [IdleSession EXCEPT !.op = "distribute", !.uid = u, !.prop = p,
                                       !.qty = a * Unit]
       IN sess' = [sess EXCEPT ![s] =
                     IF ~Authorized(u, p)
                     THEN [call EXCEPT !.pc = "done", !.err = "Unauthorized"]
                     ELSE IF TotalInvalid(a * Unit)
                     THEN [call EXCEPT !.pc = "done", !.err = "InvalidAmount"]
                     ELSE [call EXCEPT !.pc = "dist_sum"]]
    /\ UNCHANGED <<db, hist>>

\* SELECT SUM INTO v_total_tokens; IF v_total_tokens = 0 RAISE;
\* v_per_token := p_total_amount / v_total_tokens; INSERT profit_distributions
DistSum(s) ==
    /\ Delivered
    /\ sess[s].pc = "dist_sum"
    /\ LET t == TotalTokensIssued(sess[s].prop)
       IN sess' = [sess EXCEPT ![s] =
                     IF t = 0
                     THEN Raise(s, "NoTokensIssued")
                     ELSE [sess[s] EXCEPT !.pc = "dist_open", !.v_total_tokens = t,
                                          !.seen_rows = Len(token_purchases),
                                          !.v_per_token = NumericDiv(sess[s].qty, t)]]
    /\ UNCHANGED <<db, hist>>

\* FOR rec IN SELECT ... GROUP BY tp.user_id: the loop's query is evaluated
DistOpen(s) ==
    /\ Delivered
    /\ sess[s].pc = "dist_open"
    /\ sess' = [sess EXCEPT ![s] =
                  [sess[s] EXCEPT !.pc = "dist_loop", !.holders = HolderTokens(sess[s].prop),
                                  !.snap = HolderTokens(sess[s].prop)]]
    /\ UNCHANGED <<db, hist>>

CreditRow(h, amount, user_tokens) == [user_id |-> h, amount |-> amount, tokens |-> user_tokens]

\* One holder of the loop, taken in the (unspecified) order of the GROUP BY:
\* PERFORM 1 FROM wallets; with the wallet found, UPDATE wallets SET balance =
\* balance + v_per_token * user_tokens and INSERT wallet_transactions
\* (CHECK amount > 0); without it, the INSERT of the wallet comes next.
DistHolder(s) ==
    /\ Delivered
    /\ sess[s].pc = "dist_loop"
    /\ \E rec \in sess[s].holders :
         LET h == rec[1]
             amt == HolderCredit(sess[s].v_per_token, rec[2])
         IN IF ~HasWallet(h)
            THEN sess' = [sess EXCEPT ![s] =
                            [sess[s] EXCEPT !.pc = "dist_insert", !.cur = h]]
            ELSE /\ ~LockedByOther(s, h)
                 /\ sess' = [sess EXCEPT ![s] =
                               IF ~AmountCheck(amt)
                               THEN Raise(s, "CheckViolation")
                               ELSE [sess[s] EXCEPT
                                       !.holders = @ \ {rec},
                                       !.upd = @ \cup {h},
                                       !.credits = @ \cup {CreditRow(h, amt, rec[2])}]]
    /\ UNCHANGED <<db, hist>>

\* IF NOT FOUND: INSERT INTO wallets (user_id) VALUES (rec.user_id), then the
\* UPDATE of the new row and the INSERT of the 'profit' transaction
DistInsert(s) ==
    /\ Delivered
    /\ sess[s].pc = "dist_insert"
    /\ LET h == sess[s].cur
           rec == CHOOSE r \in sess[s].holders : r[1] = h
           amt == HolderCredit(sess[s].v_per_token, rec[2])
       IN \/ /\ UserIdTaken(h)
             /\ sess' = [sess EXCEPT ![s] = Raise(s, "UniqueViolation")]
          \/ /\ ~UserIdTaken(h)
             /\ ~InsertingOther(s, h)
             /\ sess' = [sess EXCEPT ![s] =
                           IF ~AmountCheck(amt)
                           THEN Raise(s, "CheckViolation")
                           ELSE [sess[s] EXCEPT
                                   !.pc = "dist_loop", !.cur = NoUser,
                                   !.holders = @ \ {rec},
                                   !.ins = @ \cup {h},
                                   !.credits = @ \cup {CreditRow(h, amt, rec[2])}]]
    /\ UNCHANGED <<db, hist>>

\* the wallets with every credit of cs applied, a holder's wallet inserted
\* first when the loop inserted it
CreditWallets_partial(ws, cs, inserted) ==
    [u \in Users |->
        IF cs # {} /\ (CHOOSE c \in cs : TRUE).user_id = u
        THEN LET c == CHOOSE c \in cs : TRUE
                 w0 == IF u \in inserted THEN InsertWallet(ws, u) ELSE ws
             IN SetBalance(w0, u, w0[u][1].balance + c.amount)[u]
        ELSE ws[u]]

CreditWallets(ws, cs, inserted) ==
    [u \in Users |->
        IF \E c \in cs : c.user_id = u
        THEN LET c == CHOOSE c \in cs : c.user_id = u
                 w0 == IF u \in inserted THEN InsertWallet(ws, u) ELSE ws
             IN SetBalance(w0, u, w0[u][1].balance + c.amount)[u]
        ELSE ws[u]]

ProfitTx(wid, amount, p, dist_id, user_tokens) ==
    TxRow(wid, "profit", amount, 0, p, dist_id, user_tokens)

DistributionRow(p, p_total_amount, v_per_token, u) ==
    [property_id |-> p, total_amount |-> p_total_amount,
     per_token_amount |-> v_per_token, created_by |-> u]

\* END LOOP; RETURN v_dist_id: the distribution row and every holder's credit
\* and 'profit' transaction are committed together
DistCommit(s) ==
    /\ Delivered
    /\ sess[s].pc = "dist_loop"
    /\ sess[s].holders = {}
    /\ LET cs == sess[s].credits
           p == sess[s].prop
           did == Len(profit_distributions) + 1
       IN /\ wallets' = CreditWallets(wallets, cs, sess[s].ins)
          /\ wallet_transactions' = wallet_transactions (+)
                SetToBag({ProfitTx(WalletId(c.user_id), c.amount, p, did, c.tokens) : c \in cs})
          /\ profit_distributions' = Append(profit_distributions,
                DistributionRow(p, sess[s].qty, sess[s].v_per_token, sess[s].uid))
          /\ credited' = [u \in Users |->
                credited[u] + IF \E c \in cs : c.user_id = u
                              THEN (CHOOSE c \in cs : c.user_id = u).amount
                              ELSE 0]
          /\ sess' = [sess EXCEPT ![s] =
                        [sess[s] EXCEPT !.pc = "done", !.ins = {}, !.upd = {},
                                        !.credits = {}, !.ret = did]]
    /\ UNCHANGED <<properties, token_purchases, certificates, user_roles, deposited>>

----------------------------------------------------------------------------
(* Direct writes to public.properties *)

\* UPDATE properties SET ... WHERE id = p by actor: the row is visible to the
\* UPDATE policies of its seller and of admins; the BEFORE UPDATE trigger
\* prevent_nonadmin_verification_change rejects a changed is_verified.
CanUpdateProperty(actor, p) ==
    /\ properties[p].exists
    /\ \/ properties[p].seller_user_id = actor
       \/ has_role(actor, "admin")

VerificationBlocked(actor, old, new) ==
    /\ new.is_verified # old.is_verified
    /\ ~has_role(actor, "admin")

UpdateProperty(actor, p, new) ==
    /\ Delivered
    /\ CanUpdateProperty(actor, p)
    /\ ~VerificationBlocked(actor, properties[p], new)
    /\ new # properties[p]
    /\ properties' = [properties EXCEPT ![p] = new]
    /\ UNCHANGED <<wallets, wallet_transactions, token_purchases, certificates,
                   profit_distributions, user_roles, sess, hist>>

SetStatus(actor, p, st) == UpdateProperty(actor, p, [properties[p] EXCEPT !.status = st])

\* The response reaches the caller; the session is free for the next call.
Return(s) ==
    /\ sess[s].pc = "done"
    /\ sess' = [sess EXCEPT ![s] = IdleSession]
    /\ UNCHANGED <<db, hist>>

Next ==
    \/ \E s \in Sessions, u \in Users, a \in DepositInputs : DepositBegin(s, u, a)
    \/ \E s \in Sessions : DepositWrite(s)
    \/ \E s \in Sessions, u \in Users, p \in PropIds, n \in TokenInputs :
          PurchaseBegin(s, u, p, n)
    \/ \E s \in Sessions : PurchaseWallet(s)
    \/ \E s \in Sessions : PurchaseInsert(s)
    \/ \E s \in Sessions : PurchaseWrite(s)
    \/ \E s \in Sessions, u \in Users, p \in PropIds, a \in AmountInputs :
          DistBegin(s, u, p, a)
    \/ \E s \in Sessions : DistSum(s)
    \/ \E s \in Sessions : DistOpen(s)
    \/ \E s \in Sessions : DistHolder(s)
    \/ \E s \in Sessions : DistCommit(s)
    \/ \E actor \in Users, p \in PropIds, st \in {"active", "inactive"} :
          SetStatus(actor, p, st)
    \/ \E s \in Sessions : Return(s)

Spec == Init /\ [][Next]_vars

----------------------------------------------------------------------------
(* Role grants: assign_role(target_user_id, target_role) and the row-level   *)
(* policies of public.user_roles                                             *)

GrantableRoles == {"admin", "seller_verified"}

\* IF NOT has_role(auth.uid(), 'admin') THEN RAISE EXCEPTION
AssignBegin(s, u, target, r) ==
    /\ CanStart(s)
    /\ LET call == [IdleSession EXCEPT !.op = "assign_role", !.uid = u,
                                       !.cur = target, !.role = r]
       IN sess' = [sess EXCEPT ![s] =
                     IF ~has_role(u, "admin")
                     THEN [call EXCEPT !.pc = "done", !.err = "Unauthorized"]
                     ELSE [call EXCEPT !.pc = "role_insert"]]
    /\ UNCHANGED <<db, hist>>

\* INSERT INTO user_roles (user_id, role) VALUES (target_user_id, target_role)
\* ON CONFLICT (user_id, role) DO NOTHING
InsertRoleRow(roles, target, r) == roles (+) SetToBag({<<target, r>>})

RolesAfterAssign_insert(roles, target, r) == InsertRoleRow(roles, target, r)

RolesAfterAssign(roles, target, r) ==
    IF BagIn(<<target, r>>, roles) THEN roles ELSE InsertRoleRow(roles, target, r)

AssignInsert(s) ==
    /\ Delivered
    /\ sess[s].pc = "role_insert"
    /\ user_roles' = RolesAfterAssign(user_roles, sess[s].cur, sess[s].role)
    /\ sess' = [sess EXCEPT ![s] =
                  [sess[s] EXCEPT !.pc = "done",
                                  !.had = BagIn(<<sess[s].cur, sess[s].role>>, user_roles)]]
    /\ UNCHANGED <<properties, wallets, wallet_transactions, token_purchases,
                   certificates, profit_distributions, hist>>

\* policy "Admins can manage roles": INSERT ... WITH CHECK (has_role(auth.uid(), 'admin'))
CanWriteRoles(actor) == has_role(actor, "admin")

\* INSERT INTO user_roles by actor through the table API: a row that fails
\* the policy's check is refused, a duplicate violates UNIQUE (user_id, role)
GrantRole(s, actor, target, r) ==
    /\ CanStart(s)
    /\ LET call == [IdleSession EXCEPT !.op = "insert_role", !.uid = actor,
                                       !.cur = target, !.role = r, !.pc = "done"]
       IN IF ~CanWriteRoles(actor)
          THEN /\ sess' = [sess EXCEPT ![s] = [call EXCEPT !.err = "RlsViolation"]]
               /\ UNCHANGED user_roles
          ELSE IF BagIn(<<target, r>>, user_roles)
          THEN /\ sess' = [sess EXCEPT ![s] = [call EXCEPT !.err = "UniqueViolation"]]
               /\ UNCHANGED user_roles
          ELSE /\ sess' = [sess EXCEPT ![s] = call]
               /\ user_roles' = InsertRoleRow(user_roles, target, r)
    /\ UNCHANGED <<properties, wallets, wallet_transactions, token_purchases,
                   certificates, profit_distributions, hist>>

\* DELETE FROM user_roles WHERE user_id = target AND role = r by actor through
\* the table API: policy "Admins can delete roles" shows the rows to admins
\* only, anyone else deletes no row; ret is the number of rows deleted
\* every row of (target, r) is deleted
DeleteRoleRows(roles, target, r) ==
    roles (-) [g \in {<<target, r>>} |-> CopiesIn(g, roles)]

RevokeRole(s, actor, target, r) ==
    /\ CanStart(s)
    /\ LET call == [IdleSession EXCEPT !.op = "delete_role", !.uid = actor,
                                       !.cur = target, !.role = r, !.pc = "done"]
       IN IF CanWriteRoles(actor) /\ BagIn(<<target, r>>, user_roles)
          THEN /\ sess' = [sess EXCEPT ![s] = [call EXCEPT !.ret = 1]]
               /\ user_roles' = DeleteRoleRows(user_roles, target, r)
          ELSE /\ sess' = [sess EXCEPT ![s] = call]
               /\ UNCHANGED user_roles
    /\ UNCHANGED <<properties, wallets, wallet_transactions, token_purchases,
                   certificates, profit_distributions, hist>>

----------------------------------------------------------------------------
(* A seller lists a property: handleSubmit inserts the form with            *)
(* seller_user_id = user.id under the policy "Sellers can insert their      *)
(* properties"                                                               *)

ListedProperty(actor) ==
    [exists |-> TRUE, title |-> "t2", total_tokens |-> SeedTotalTokens,
     token_price |-> SeedPrice * Unit, tokens_sold |-> 0,
     status |-> "active", seller_user_id |-> actor, is_verified |-> FALSE]

CanInsertProperty(actor, row) ==
    row.seller_user_id = actor \/ has_role(actor, "admin")

InsertProperty(actor, p, row) ==
    /\ Delivered
    /\ ~properties[p].exists
    /\ CanInsertProperty(actor, row)
    /\ properties' = [properties EXCEPT ![p] = row]
    /\ UNCHANGED <<wallets, wallet_transactions, token_purchases, certificates,
                   profit_distributions, user_roles, sess, hist>>

ListProperty(actor, p) == InsertProperty(actor, p, ListedProperty(actor))

----------------------------------------------------------------------------
(* Roles and distributions.  The starting state is the one reached when    *)
(* Seller has listed property p2 and Buyer has deposited MaxDeposit units   *)
(* and bought one token of it; from there the role grants change and every  *)
(* user starts distributions on every property.                             *)

Buyer == "u1"

Seller == "u2"

ListedSold == [ListedProperty(Seller) EXCEPT !.tokens_sold = TokensSoldAfter(@, 1)]

InitRoles ==
    LET price == ListedProperty(Seller).token_price
        cost == PurchaseCost(price, 1)
        w1 == InsertWallet([u \in Users |-> <<>>], Buyer)
        w2 == SetBalance(w1, Buyer, DepositNewBalance(0, MaxDeposit * Unit))
        w3 == SetBalance(w2, Buyer, PurchaseNewBalance(w2[Buyer][1].balance, cost))
    IN /\ properties = [p \in PropIds |-> IF p = "p1" THEN SeedProperty ELSE ListedSold]
       /\ wallets = w3
       /\ wallet_transactions =
             SetToBag({DepositTx(WalletId(Buyer), MaxDeposit * Unit),
                       PurchaseTx(WalletId(Buyer), cost, 1, "p2", 1)})
       /\ token_purchases = <<PurchaseRow(Buyer, "p2", 1, cost)>>
       /\ certificates = <<CertificateRow(Buyer, 1, 1, ListedProperty(Seller).title)>>
       /\ profit_distributions = <<>>
       /\ user_roles = SetToBag({<<"u1", "admin">>})
       /\ sess = [s \in Sessions |-> IdleSession]
       /\ deposited = [u \in Users |-> IF u = Buyer THEN MaxDeposit * Unit ELSE 0]
       /\ credited = [u \in Users |-> 0]

NextRoles ==
    \/ \E s \in Sessions, u \in Users, target \in Users, r \in GrantableRoles :
          AssignBegin(s, u, target, r)
    \/ \E s \in Sessions : AssignInsert(s)
    \/ \E s \in Sessions, actor \in Users, target \in Users, r \in GrantableRoles :
          GrantRole(s, actor, target, r)
    \/ \E s \in Sessions, actor \in Users, target \in Users, r \in GrantableRoles :
          RevokeRole(s, actor, target, r)
    \/ \E s \in Sessions, u \in Users, p \in PropIds, a \in AmountInputs :
          DistBegin(s, u, p, a)
    \/ \E s \in Sessions : DistSum(s)
    \/ \E s \in Sessions : DistOpen(s)
    \/ \E s \in Sessions : DistHolder(s)
    \/ \E s \in Sessions : DistCommit(s)
    \/ \E s \in Sessions : Return(s)

SpecRoles == InitRoles /\ [][NextRoles]_vars

----------------------------------------------------------------------------
(* handlePurchase of the property page: the client inserts the purchase     *)
(* row and then updates tokens_sold from the values the page loaded, each    *)
(* statement a transaction of its own                                        *)

\* the page's checks: if (!property || tokensToBuy <= 0) return;
\* if (tokensToBuy > tokensAvailable) toast and return; totalCost = tokensToBuy * token_price
HandleBegin(s, u, p, n) ==
    /\ CanStart(s)
    /\ properties[p].exists
    /\ Len(token_purchases) + Cardinality({t \in Sessions : sess[t].pc = "hp_insert"}) < MaxRows
    /\ LET call == [IdleSession EXCEPT !.op = "handlePurchase", !.uid = u, !.prop = p,
                                       !.qty = n]
           available == properties[p].total_tokens - properties[p].tokens_sold
       IN sess' = [sess EXCEPT ![s] =
                     IF n <= 0
                     THEN [call EXCEPT !.pc = "done"]
                     ELSE IF n > available
                     THEN [call EXCEPT !.pc = "done", !.err = "InsufficientTokens"]
                     ELSE [call EXCEPT !.pc = "hp_insert",
                                       !.v_price = properties[p].token_price,
                                       !.v_tokens_sold = properties[p].tokens_sold,
                                       !.v_cost = n * properties[p].token_price]]
    /\ UNCHANGED <<db, hist>>

ClientPurchaseRow(u, p, n, totalCost) ==
    [user_id |-> u, property_id |-> p, tokens_purchased |-> n,
     total_cost |-> totalCost, certificate_issued |-> TRUE]

\* supabase.from("token_purchases").insert({...}) under the policy
\* "Users can create their own purchases"
HandleInsert(s) ==
    /\ Delivered
    /\ sess[s].pc = "hp_insert"
    /\ token_purchases' = Append(token_purchases,
          ClientPurchaseRow(sess[s].uid, sess[s].prop, sess[s].qty, sess[s].v_cost))
    /\ sess' = [sess EXCEPT ![s] = [sess[s] EXCEPT !.pc = "hp_update",
                                                  !.ret = Len(token_purchases) + 1]]
    /\ UNCHANGED <<properties, wallets, wallet_transactions, certificates,
                   profit_distributions, user_roles, hist>>

\* supabase.from("properties").update({tokens_sold: property.tokens_sold + tokensToBuy}):
\* the row is updated when the UPDATE policies show it to the caller, and no
\* row (and no error) otherwise
HandleUpdate(s) ==
    /\ Delivered
    /\ sess[s].pc = "hp_update"
    /\ properties' =
          IF CanUpdateProperty(sess[s].uid, sess[s].prop)
          THEN [properties EXCEPT ![sess[s].prop].tokens_sold =
                                     sess[s].v_tokens_sold + sess[s].qty]
          ELSE properties
    /\ sess' = [sess EXCEPT ![s] = [sess[s] EXCEPT !.pc = "done"]]
    /\ UNCHANGED <<wallets, wallet_transactions, token_purchases, certificates,
                   profit_distributions, user_roles, hist>>

----------------------------------------------------------------------------
(* Lock waits of two distributions that form a cycle                        *)

\* the wallets session s has locked by an UPDATE or inserted, not yet committed
Held(s) == sess[s].upd \cup sess[s].ins

\* the holders the loop of session s has still to credit
Remaining(s) == {rec[1] : rec \in sess[s].holders}

\* s can be made to wait for a wallet held by t
WaitsFor(s, t) == Remaining(s) \cap Held(t) # {}

\* deadlock detected: the waiting call is aborted and rolled back
DeadlockAbort(s) ==
    /\ Delivered
    /\ sess[s].pc \in {"dist_loop", "dist_insert"}
    /\ \E t \in Sessions \ {s} : WaitsFor(s, t) /\ WaitsFor(t, s)
    /\ sess' = [sess EXCEPT ![s] = Raise(s, "Deadlock")]
    /\ UNCHANGED <<db, hist>>

----------------------------------------------------------------------------
(* Payouts to holders who bought through the property page and so may have  *)
(* no wallet, with deposits creating wallets while distributions run        *)

NextPayout ==
    \/ \E s \in Sessions, u \in Users : HandleBegin(s, u, "p1", 1)
    \/ \E s \in Sessions : HandleInsert(s)
    \/ \E s \in Sessions : HandleUpdate(s)
    \/ \E s \in Sessions, u \in Users : DepositBegin(s, u, 1)
    \/ \E s \in Sessions : DepositWrite(s)
    \/ \E s \in Sessions : DistBegin(s, "u1", "p1", 1)
    \/ \E s \in Sessions : DistSum(s)
    \/ \E s \in Sessions : DistOpen(s)
    \/ \E s \in Sessions : DistHolder(s)
    \/ \E s \in Sessions : DistInsert(s)
    \/ \E s \in Sessions : DistCommit(s)
    \/ \E s \in Sessions : DeadlockAbort(s)
    \/ \E s \in Sessions : Return(s)

SpecPayout == Init /\ [][NextPayout]_vars

----------------------------------------------------------------------------
(* Updates of public.properties sent by the clients, as calls with a result *)

\* WITH CHECK of the UPDATE policies, evaluated on the new row
PassesUpdateCheck(actor, new) ==
    new.seller_user_id = actor \/ has_role(actor, "admin")

\* supabase.from('properties').update(...).eq('id', p) by actor.  A row the
\* USING clauses hide from the actor is not updated and no error is returned;
\* the BEFORE UPDATE trigger raises for a changed is_verified; the WITH CHECK
\* clauses are evaluated on the row the trigger returned.
UpdateCall(s, actor, p, new) ==
    /\ CanStart(s)
    /\ LET call == [IdleSession EXCEPT !.op = "update_property", !.uid = actor,
                                       !.prop = p, !.req = new, !.pc = "done"]
       IN IF ~CanUpdateProperty(actor, p)
          THEN /\ sess' = [sess EXCEPT ![s] = call]
               /\ UNCHANGED properties
          ELSE IF VerificationBlocked(actor, properties[p], new)
          THEN /\ sess' = [sess EXCEPT ![s] = [call EXCEPT !.err = "Unauthorized"]]
               /\ UNCHANGED properties
          ELSE IF ~PassesUpdateCheck(actor, new)
          THEN /\ sess' = [sess EXCEPT ![s] = [call EXCEPT !.err = "RlsViolation"]]
               /\ UNCHANGED properties
          ELSE /\ sess' = [sess EXCEPT ![s] = [call EXCEPT !.ret = 1]]
               /\ properties' = [properties EXCEPT ![p] = new]
    /\ UNCHANGED <<wallets, wallet_transactions, token_purchases, certificates,
                   profit_distributions, user_roles, hist>>

\* togglePropertyVerification: update({ is_verified: !currentStatus })
Toggled(old) == [old EXCEPT !.is_verified = ~@]

\* handleSubmit of the seller's form: update({...formData, seller_user_id: user.id,
\* status: 'active'})
Edited(actor, old, title, price) ==
    [old EXCEPT !.title = title, !.token_price = price,
                !.seller_user_id = actor, !.status = "active"]

\* the title and price a form is submitted with
Forms == {<<"t1", SeedPrice * Unit>>, <<"t2", (SeedPrice + 1) * Unit>>}

\* the updates a client sends: the flag alone, the form alone, or both in
\* one statement
Mutations(actor, old) ==
    {Toggled(old)}
        \cup {Edited(actor, old, f[1], f[2]) : f \in Forms}
        \cup {Toggled(Edited(actor, old, f[1], f[2])) : f \in Forms}

\* Seller has listed p2 and Buyer has deposited MaxDeposit units
InitProps ==
    LET w1 == InsertWallet([u \in Users |-> <<>>], Buyer)
    IN /\ properties = [p \in PropIds |->
                           IF p = "p1" THEN SeedProperty ELSE ListedProperty(Seller)]
       /\ wallets = SetBalance(w1, Buyer, DepositNewBalance(0, MaxDeposit * Unit))
       /\ wallet_transactions = SetToBag({DepositTx(WalletId(Buyer), MaxDeposit * Unit)})
       /\ token_purchases = <<>>
       /\ certificates = <<>>
       /\ profit_distributions = <<>>
       /\ user_roles = SetToBag({<<"u1", "admin">>})
       /\ sess = [s \in Sessions |-> IdleSession]
       /\ deposited = [u \in Users |-> IF u = Buyer THEN MaxDeposit * Unit ELSE 0]
       /\ credited = [u \in Users |-> 0]

NextProps ==
    \/ \E s \in Sessions, actor \in Users :
          \E new \in Mutations(actor, properties["p2"]) : UpdateCall(s, actor, "p2", new)
    \/ \E s \in Sessions :
          \E new \in Mutations(Seller, properties["p1"]) : UpdateCall(s, Seller, "p1", new)
    \/ \E s \in Sessions, n \in 1..MaxTokens : PurchaseBegin(s, Buyer, "p2", n)
    \/ \E s \in Sessions : PurchaseWallet(s)
    \/ \E s \in Sessions : PurchaseWrite(s)
    \/ \E s \in Sessions : Return(s)

SpecProps == InitProps /\ [][NextProps]_vars

----------------------------------------------------------------------------
(* Wallets created on first use: by the trigger on profiles and by the      *)
(* three functions, for the same users at the same time                      *)

\* AFTER INSERT ON profiles: INSERT INTO wallets (user_id) VALUES (NEW.user_id)
\* ON CONFLICT (user_id) DO NOTHING.  With a wallet on record nothing is
\* inserted; an uncommitted insert of the same user_id is waited for.
ProfileCreated(u) ==
    /\ Delivered
    /\ ~UserIdTaken(u)
    /\ \A t \in Sessions : u \notin sess[t].ins
    /\ wallets' = InsertWallet(wallets, u)
    /\ UNCHANGED <<properties, wallet_transactions, token_purchases, certificates,
                   profit_distributions, user_roles, sess, hist>>

NextWallets ==
    \/ NextPayout
    \/ \E u \in Users : ProfileCreated(u)
    \/ \E s \in Sessions, u \in Users : PurchaseBegin(s, u, "p1", 1)
    \/ \E s \in Sessions : PurchaseWallet(s)
    \/ \E s \in Sessions : PurchaseInsert(s)
    \/ \E s \in Sessions : PurchaseWrite(s)

SpecWallets == Init /\ [][NextWallets]_vars

----------------------------------------------------------------------------
(* Listings: rows inserted into public.properties through the table API     *)

\* supabase.from('properties').insert([row]) by actor: the INSERT policies
\* check the new row; no trigger fires on INSERT
InsertCall(s, actor, p, row) ==
    /\ CanStart(s)
    /\ ~properties[p].exists
    /\ LET call == [IdleSession EXCEPT !.op = "insert_property", !.uid = actor,
                                       !.prop = p, !.req = row, !.pc = "done"]
       IN IF ~CanInsertProperty(actor, row)
          THEN /\ sess' = [sess EXCEPT ![s] = [call EXCEPT !.err = "RlsViolation"]]
               /\ UNCHANGED properties
          ELSE /\ sess' = [sess EXCEPT ![s] = [call EXCEPT !.ret = 1]]
               /\ properties' = [properties EXCEPT ![p] = row]
    /\ UNCHANGED <<wallets, wallet_transactions, token_purchases, certificates,
                   profit_distributions, user_roles, hist>>

\* the rows a client sends: the form's row (is_verified left to its default),
\* the same row with is_verified set, and a row naming another seller
Listings(actor) ==
    {ListedProperty(actor),
     [ListedProperty(actor) EXCEPT !.is_verified = TRUE],
     ListedProperty(NoUser)}

NextListing ==
    \/ \E s \in Sessions, actor \in Users :
          \E row \in Listings(actor) : InsertCall(s, actor, "p2", row)
    \/ \E s \in Sessions, actor \in Users, p \in PropIds :
          \E new \in Mutations(actor, properties[p]) : UpdateCall(s, actor, p, new)
    \/ \E s \in Sessions : Return(s)

SpecListing == Init /\ [][NextListing]_vars

----------------------------------------------------------------------------
(* A property listed with the form's default token_price of 0               *)

ListedFree(actor) == [ListedProperty(actor) EXCEPT !.token_price = 0]

\* Seller has submitted the listing form for p2 without a price
InitFree ==
    /\ properties = [p \in PropIds |->
                        IF p = "p1" THEN SeedProperty ELSE ListedFree(Seller)]
    /\ wallets = [u \in Users |-> <<>>]
    /\ wallet_transactions = EmptyBag
    /\ token_purchases = <<>>
    /\ certificates = <<>>
    /\ profit_distributions = <<>>
    /\ user_roles = SetToBag({<<"u1", "admin">>})
    /\ sess = [s \in Sessions |-> IdleSession]
    /\ deposited = [u \in Users |-> 0]
    /\ credited = [u \in Users |-> 0]

NextFree ==
    \/ \E s \in Sessions, u \in Users, a \in 1..MaxDeposit : DepositBegin(s, u, a)
    \/ \E s \in Sessions : DepositWrite(s)
    \/ \E s \in Sessions, u \in Users, p \in PropIds, n \in 1..MaxTokens :
          PurchaseBegin(s, u, p, n)
    \/ \E s \in Sessions : PurchaseWallet(s)
    \/ \E s \in Sessions : PurchaseInsert(s)
    \/ \E s \in Sessions : PurchaseWrite(s)
    \/ \E s \in Sessions : Return(s)

SpecFree == InitFree /\ [][NextFree]_vars

----------------------------------------------------------------------------
(* Helpers of the properties *)

\* balance of u's wallet in the wallets table ws, 0 without a wallet
WBal(ws, u) == IF ws[u] = <<>> THEN 0 ELSE ws[u][1].balance

Signed(r) ==
    IF r.type \in {"deposit", "profit"} THEN r.amount
    ELSE IF r.type = "purchase" THEN 0 - r.amount ELSE 0

RECURSIVE SignedSum(_, _)
SignedSum(rows, B) ==
    IF rows = {} THEN 0
    ELSE LET r == CHOOSE x \in rows : TRUE
         IN CopiesIn(r, B) * Signed(r) + SignedSum(rows \ {r}, B)

TxOfWallet(B, wid) == {r \in BagToSet(B) : r.wallet_id = wid}

LedgerSum(u) == SignedSum(TxOfWallet(wallet_transactions, WalletId(u)), wallet_transactions)

RECURSIVE CostsIn(_, _)
CostsIn(rows, u) ==
    IF rows = <<>> THEN 0
    ELSE (IF Head(rows).user_id = u THEN Head(rows).total_cost ELSE 0) + CostsIn(Tail(rows), u)

PurchaseCosts(u) == CostsIn(token_purchases, u)

\* the transactions added by the step, as a bag
AddedTx == wallet_transactions' (-) wallet_transactions

AddedTxOf(u) == {r \in BagToSet(AddedTx) : r.wallet_id = WalletId(u)}

Steps(s) == sess'[s] # sess[s]

Finishes(s, from, e) ==
    /\ sess[s].pc = from
    /\ sess'[s].pc = "done"
    /\ sess'[s].err = e

Left(p) == properties[p].total_tokens - properties[p].tokens_sold

----------------------------------------------------------------------------
(* Properties *)

\* C1: for every wallet, balance = deposits - purchase costs + profit
\* credits, and this is the sum of its transactions signed by type.
C1_BalanceReconciles ==
    \A u \in Users :
        /\ WBal(wallets, u) = deposited[u] - PurchaseCosts(u) + credited[u]
        /\ WBal(wallets, u) = LedgerSum(u)

C1_Witness ==
    \E u \in Users : deposited[u] > 0 /\ PurchaseCosts(u) > 0 /\ credited[u] > 0

\* C2: every wallet's balance is >= 0 in every reachable state.
C2_BalanceNonNegative == \A u \in Users : WBal(wallets, u) >= 0

\* C3: a purchase never debits a wallet whose balance, when the debit is
\* made, is below the cost: the balance it checked is not stale.
C3_NoStaleBalanceCheck ==
    [][\A s \in Sessions :
         Finishes(s, "pur_write", "none") => WBal(wallets, sess[s].uid) >= sess[s].v_cost]_vars

\* C4: 0 <= tokens_sold <= total_tokens for every property.
C4_TokensSoldWithinSupply ==
    \A p \in PropIds :
        properties[p].exists =>
            /\ 0 <= properties[p].tokens_sold
            /\ properties[p].tokens_sold <= properties[p].total_tokens

\* C5: of two concurrent purchases of the n tokens left on a property, both
\* requesting n, one fails: a call that started with n tokens left and asks
\* for n, its buyer having the funds, does not succeed once a concurrent
\* call has taken them.
C5_LastTokensSoldOnce ==
    [][\A s \in Sessions :
         (/\ Finishes(s, "pur_write", "none")
          /\ sess[s].qty = sess[s].seen_left
          /\ WBal(wallets, sess[s].uid) >= sess[s].v_cost)
         => Left(sess[s].prop) # 0]_vars

\* the purchase of session s reads a balance below its cost in this step
ReadsShortBalance(s) ==
    LET u == sess[s].uid
    IN \/ sess[s].pc = "pur_wallet" /\ HasWallet(u) /\ Balance(u) < sess[s].v_cost
       \/ sess[s].pc = "pur_insert" /\ ~HasWallet(u) /\ 0 < sess[s].v_cost

StartsPurchase(s) == sess[s].pc = "idle" /\ sess'[s].op = "purchase"

\* property p has no row, or a row whose status is not 'active'
MissingOrInactive(p) == ~properties[p].exists \/ properties[p].status # "active"

\* C7 as stated: every purchase naming a missing or inactive property fails
\* with PropertyUnavailable and changes nothing.
C7_UnavailableAlways ==
    [][\A s \in Sessions :
         (StartsPurchase(s) /\ MissingOrInactive(sess'[s].prop))
         => /\ sess'[s].pc = "done"
            /\ sess'[s].err = "PropertyUnavailable"
            /\ UNCHANGED db]_vars

\* C7 amended: a purchase with tokenCount > 0 naming a missing or inactive
\* property fails with PropertyUnavailable and changes nothing.
C7_UnavailableNoChange ==
    [][\A s \in Sessions :
         (StartsPurchase(s) /\ sess'[s].qty > 0 /\ MissingOrInactive(sess'[s].prop))
         => /\ sess'[s].pc = "done"
            /\ sess'[s].err = "PropertyUnavailable"
            /\ UNCHANGED db]_vars

C7_Witness ==
    \E s \in Sessions :
        /\ sess[s].pc = "done" /\ sess[s].op = "purchase"
        /\ sess[s].err = "PropertyUnavailable"
        /\ sess[s].qty > 0
        /\ properties[sess[s].prop].exists
        /\ properties[sess[s].prop].status = "inactive"

\* C8: a successful purchase of n tokens at the price p it read adds n to
\* tokens_sold, takes n*p from the buyer's balance and adds exactly one
\* purchase row, one certificate of it and one 'purchase' transaction of it.
C8_PurchaseEffect ==
    [][\A s \in Sessions :
         Finishes(s, "pur_write", "none") =>
            LET u == sess[s].uid
                p == sess[s].prop
                n == sess[s].qty
                cost == n * sess[s].v_price
                pid == Len(token_purchases) + 1
            IN /\ properties'[p].tokens_sold = properties[p].tokens_sold + n
               /\ WBal(wallets', u) = WBal(wallets, u) - cost
               /\ token_purchases' = Append(token_purchases,
                     [user_id |-> u, property_id |-> p, tokens_purchased |-> n,
                      total_cost |-> cost, certificate_issued |-> FALSE])
               /\ certificates' = Append(certificates,
                     [user_id |-> u, purchase_id |-> pid, tokens_owned |-> n,
                      property_title |-> sess[s].v_title])
               /\ BagCardinality(AddedTx) = 1
               /\ \A r \in BagToSet(AddedTx) :
                     /\ r.wallet_id = WalletId(u) /\ r.type = "purchase"
                     /\ r.amount = cost /\ r.purchase_id = pid /\ r.property_id = p
               /\ sess'[s].ret = pid]_vars

C8_Witness ==
    \E s \in Sessions :
        /\ sess[s].pc = "done" /\ sess[s].op = "purchase" /\ sess[s].err = "none"
        /\ sess[s].qty > 1
        /\ Len(token_purchases) = sess[s].ret

\* C9: in every step, a wallet whose balance changes gets exactly one new
\* transaction, of the absolute change; a wallet whose balance does not
\* change gets none; no recorded transaction disappears.
C9_BalanceChangePaired ==
    [][/\ wallet_transactions \sqsubseteq wallet_transactions'
       /\ \A u \in Users :
            LET d == WBal(wallets', u) - WBal(wallets, u)
            IN IF d = 0
               THEN AddedTxOf(u) = {}
               ELSE /\ Cardinality(AddedTxOf(u)) = 1
                    /\ \A r \in AddedTxOf(u) :
                          CopiesIn(r, AddedTx) = 1 /\ r.amount = (IF d < 0 THEN 0 - d ELSE d)]_vars

C9_Witness ==
    /\ \E r \in BagToSet(wallet_transactions) : r.type = "deposit"
    /\ \E r \in BagToSet(wallet_transactions) : r.type = "purchase"
    /\ \E r \in BagToSet(wallet_transactions) : r.type = "profit"

\* C10: a successful deposit of amount > 0 creates the user's wallet when
\* there is none, adds amount to its balance, records one 'deposit'
\* transaction of that amount and returns the new balance.
C10_DepositEffect ==
    [][\A s \in Sessions :
         Finishes(s, "dep_write", "none") =>
            LET u == sess[s].uid
                amt == sess[s].qty
            IN /\ amt > 0
               /\ Len(wallets'[u]) = 1
               /\ WBal(wallets', u) = WBal(wallets, u) + amt
               /\ \A v \in Users \ {u} : wallets'[v] = wallets[v]
               /\ BagCardinality(AddedTx) = 1
               /\ \A r \in BagToSet(AddedTx) :
                     r.wallet_id = WalletId(u) /\ r.type = "deposit" /\ r.amount = amt
               /\ sess'[s].ret = WBal(wallets, u) + amt]_vars

C10_Witness ==
    \E s \in Sessions :
        /\ sess[s].pc = "done" /\ sess[s].op = "deposit" /\ sess[s].err = "none"
        /\ sess[s].ret > sess[s].qty

\* session s starts a call in this step
Starts(s, op) == sess[s].pc = "idle" /\ sess'[s].op = op

\* u is an admin, or a verified seller who is the seller of property p
AdminOrOwningVerifiedSeller(u, p) ==
    \/ BagIn(<<u, "admin">>, user_roles)
    \/ /\ BagIn(<<u, "seller_verified">>, user_roles)
       /\ properties[p].exists
       /\ properties[p].seller_user_id = u

C12_DistributeAuthorization ==
    [][\A s \in Sessions :
         Starts(s, "distribute") =>
            IF AdminOrOwningVerifiedSeller(sess'[s].uid, sess'[s].prop)
            THEN sess'[s].err # "Unauthorized"
            ELSE /\ sess'[s].pc = "done"
                 /\ sess'[s].err = "Unauthorized"
                 /\ UNCHANGED db]_vars

C12_Witness ==
    \E s \in Sessions :
        /\ sess[s].pc = "done" /\ sess[s].op = "distribute"
        /\ sess[s].err = "Unauthorized"
        /\ BagIn(<<sess[s].uid, "seller_verified">>, user_roles)
        /\ properties[sess[s].prop].seller_user_id # sess[s].uid

\* the 'profit' transactions added by the step
AddedProfit == {r \in BagToSet(AddedTx) : r.type = "profit"}

RECURSIVE TokensOf(_)
\* sum of the token counts recorded on the transactions of rows added by the step
TokensOf(rows) ==
    IF rows = {} THEN 0
    ELSE LET r == CHOOSE x \in rows : TRUE
         IN CopiesIn(r, AddedTx) * r.tokens + TokensOf(rows \ {r})

RECURSIVE CreditedTo(_)
\* sum of the balance increases of the users of us in the step
CreditedTo(us) ==
    IF us = {} THEN 0
    ELSE LET u == CHOOSE x \in us : TRUE
         IN (WBal(wallets', u) - WBal(wallets, u)) + CreditedTo(us \ {u})

\* the token_purchases rows there were when the call read its total
RowsSeen(s) == SubSeq(token_purchases, 1, sess[s].seen_rows)

\* C13: a successful distribution of A over the T tokens of the property's
\* purchase rows records perTokenAmount = A/T (to the nearest ulp) and
\* credits every holder once with perTokenAmount times the holder's tokens,
\* by one 'profit' transaction of that amount; nobody else is credited
\* (stated for the runs that overdraw no wallet).
C13_ProportionalCredits ==
    [][\A s \in Sessions :
         (Finishes(s, "dist_loop", "none") /\ \A v \in Users : WBal(wallets, v) >= 0) =>
            LET p == sess[s].prop
                A == sess[s].qty
                T == TokensIn(RowsSeen(s), p, Users)
                pt == profit_distributions'[Len(profit_distributions')].per_token_amount
            IN /\ Len(profit_distributions') = Len(profit_distributions) + 1
               /\ 2 * (pt * T - A) <= T
               /\ 2 * (A - pt * T) <= T
               /\ \A u \in Users :
                     LET k == TokensIn(RowsSeen(s), p, {u})
                         mine == {r \in AddedProfit : r.wallet_id = WalletId(u)}
                     IN /\ WBal(wallets', u) - WBal(wallets, u) = pt * k
                        /\ IF k = 0 THEN mine = {}
                           ELSE /\ Cardinality(mine) = 1
                                /\ \A r \in mine : CopiesIn(r, AddedTx) = 1 /\ r.amount = pt * k
               /\ CreditedTo(Users) = pt * T]_vars

\* C14: the credits of a successful distribution never sum to more than its
\* totalAmount; stated for the distributions that credit exactly the tokens
\* they divided by.
C14_CreditsWithinTotal ==
    [][\A s \in Sessions :
         (/\ Finishes(s, "dist_loop", "none")
          /\ TokensOf(AddedProfit) = sess[s].v_total_tokens)
         => CreditedTo(Users) <= sess[s].qty]_vars

\* C16: a distribution that passed the authorization and the amount check
\* and reads no purchase row of the property fails with NoTokensIssued and
\* changes no table.
C16_NoTokensIssued ==
    [][\A s \in Sessions :
         (/\ sess[s].pc = "dist_sum"
          /\ Steps(s)
          /\ \A i \in 1..Len(token_purchases) :
                token_purchases[i].property_id # sess[s].prop)
         => /\ sess'[s].pc = "done"
            /\ sess'[s].err = "NoTokensIssued"
            /\ UNCHANGED db]_vars

C16_Witness ==
    \E s \in Sessions :
        /\ sess[s].pc = "done" /\ sess[s].op = "distribute"
        /\ sess[s].err = "NoTokensIssued"
        /\ sess[s].qty > 0
        /\ properties[sess[s].prop].exists
        /\ properties[sess[s].prop].tokens_sold > 0

\* C17: the tokens a successful distribution credits are the tokens it summed
\* into the denominator of perTokenAmount, whatever purchase commits while
\* it runs (stated for the runs that overdraw no wallet).
C17_CreditsMatchDenominator ==
    [][\A s \in Sessions :
         (Finishes(s, "dist_loop", "none") /\ \A v \in Users : WBal(wallets, v) >= 0)
         => TokensOf(AddedProfit) = sess[s].v_total_tokens]_vars

\* the 'profit' transactions on record
ProfitRows == {r \in BagToSet(wallet_transactions) : r.type = "profit"}

\* C15: a distribution is all or nothing across its holders. The step that
\* ends a successful distributeProfit appends its ProfitDistribution row and,
\* in that same step, credits every holder the call's loop found and records
\* one 'profit' transaction for each; no other step adds a distribution row,
\* a 'profit' transaction or a credit; and a distributeProfit that ends with
\* an error, at any holder, leaves the whole database as it was.
C15_DistributionAtomic ==
    [][/\ (\A s \in Sessions : ~Finishes(s, "dist_loop", "none")) =>
              /\ profit_distributions' = profit_distributions
              /\ AddedProfit = {}
              /\ credited' = credited
       /\ \A s \in Sessions :
              Finishes(s, "dist_loop", "none") =>
                  /\ Len(profit_distributions') = Len(profit_distributions) + 1
                  /\ {r.wallet_id : r \in AddedProfit}
                        = {WalletId(h[1]) : h \in sess[s].snap}
                  /\ \A h \in sess[s].snap :
                        /\ Len(wallets'[h[1]]) = 1
                        /\ WBal(wallets', h[1]) - WBal(wallets, h[1])
                              = sess[s].v_per_token * h[2]
                        /\ credited'[h[1]] - credited[h[1]] = sess[s].v_per_token * h[2]
       /\ \A s \in Sessions :
              (/\ sess[s].op = "distribute"
               /\ sess[s].pc # "done"
               /\ sess'[s].pc = "done"
               /\ sess'[s].err # "none") => UNCHANGED db]_vars

\* a distribution failed at a holder after crediting another one, and neither
\* a distribution row nor a 'profit' transaction is on record
C15_Witness ==
    \E s \in Sessions :
        /\ sess[s].pc = "done"
        /\ sess[s].op = "distribute"
        /\ sess[s].err = "UniqueViolation"
        /\ sess[s].undone >= 1
        /\ profit_distributions = <<>>
        /\ ProfitRows = {}

\* the 'purchase' transactions recorded in this step
AddedPurchaseTx == {r \in BagToSet(AddedTx) : r.type = "purchase"}

\* C18: a purchase is priced at the price and titled with the title its call
\* read from the property: the call's snapshot is the property's price and
\* title at that moment, the stored total cost and the amount of the
\* 'purchase' transaction are tokens * that price, and the certificate carries
\* that title; and no step, in particular no later change of the property's
\* price or title, changes a stored purchase, a recorded transaction or an
\* issued certificate.
C18_PriceSnapshot ==
    [][/\ \A s \in Sessions :
              (Starts(s, "purchase") /\ sess'[s].pc # "done") =>
                  /\ sess'[s].v_price = properties[sess'[s].prop].token_price
                  /\ sess'[s].v_title = properties[sess'[s].prop].title
       /\ \A s \in Sessions :
              Finishes(s, "pur_write", "none") =>
                  LET row == token_purchases'[Len(token_purchases')]
                      cert == certificates'[Len(certificates')]
                  IN /\ Len(token_purchases') = Len(token_purchases) + 1
                     /\ Len(certificates') = Len(certificates) + 1
                     /\ row.tokens_purchased = sess[s].qty
                     /\ row.total_cost = sess[s].qty * sess[s].v_price
                     /\ \A r \in AddedPurchaseTx :
                            r.amount = sess[s].qty * sess[s].v_price
                     /\ Cardinality(AddedPurchaseTx) = 1
                     /\ cert.property_title = sess[s].v_title
       /\ SubSeq(token_purchases', 1, Len(token_purchases)) = token_purchases
       /\ SubSeq(certificates', 1, Len(certificates)) = certificates
       /\ wallet_transactions \sqsubseteq wallet_transactions']_vars

\* a purchase is on record whose property has since changed both price and
\* title: its total cost and certificate title are those of the purchase
C18_Witness ==
    \E i \in 1..Len(token_purchases) :
        LET row == token_purchases[i]
            p == row.property_id
        IN /\ row.total_cost # row.tokens_purchased * properties[p].token_price
           /\ \E j \in 1..Len(certificates) :
                 /\ certificates[j].purchase_id = i
                 /\ certificates[j].property_title # properties[p].title

\* C19: an update of a property that changes is_verified, sent by an actor
\* without the admin role, ends with Unauthorized and changes no field of any
\* property; the update without a flag change sent by the property's seller
\* is applied; an admin's flag change is applied.
C19_VerificationGate ==
    [][\A s \in Sessions :
          Starts(s, "update_property") =>
              LET actor == sess'[s].uid
                  old == properties[sess'[s].prop]
                  new == sess'[s].req
                  isAdmin == BagIn(<<actor, "admin">>, user_roles)
              IN /\ (new.is_verified # old.is_verified /\ ~isAdmin) =>
                        /\ sess'[s].err = "Unauthorized"
                        /\ properties' = properties
                 /\ (new.is_verified = old.is_verified /\ old.seller_user_id = actor) =>
                        /\ sess'[s].err = "none"
                        /\ properties'[sess'[s].prop] = new
                 /\ (new.is_verified # old.is_verified /\ isAdmin) =>
                        /\ sess'[s].err = "none"
                        /\ properties'[sess'[s].prop] = new]_vars

\* a flag change by a non-admin who is not the property's seller has returned
\* without an error
C19_Witness ==
    \E s \in Sessions :
        /\ sess[s].pc = "done"
        /\ sess[s].op = "update_property"
        /\ sess[s].err = "none"
        /\ sess[s].ret = 0
        /\ sess[s].req.is_verified # properties[sess[s].prop].is_verified
        /\ ~BagIn(<<sess[s].uid, "admin">>, user_roles)
        /\ properties[sess[s].prop].seller_user_id # sess[s].uid

\* the user on whose behalf session s takes this step
Caller(s) == IF sess[s].pc = "idle" THEN sess'[s].uid ELSE sess[s].uid

\* assign_role called by a user without the admin grant ends with
\* Unauthorized and leaves the grants as they were
NonAdminAssignRefused ==
    \A s \in Sessions :
        (Starts(s, "assign_role") /\ ~BagIn(<<sess'[s].uid, "admin">>, user_roles)) =>
            /\ sess'[s].pc = "done"
            /\ sess'[s].err = "Unauthorized"
            /\ user_roles' = user_roles

\* C20 as stated: assign_role by a non-admin fails with Unauthorized and
\* changes no grant, and the grants change only in a step of a call whose
\* caller holds the admin grant at the moment of that step.
C20_OnlyAdminStepsChangeGrants ==
    [][/\ NonAdminAssignRefused
       /\ user_roles' # user_roles =>
              \E s \in Sessions :
                  /\ Steps(s)
                  /\ BagIn(<<Caller(s), "admin">>, user_roles)]_vars

\* C20 as amended: assign_role by a non-admin fails with Unauthorized and
\* changes no grant; a call gets past the check of assign_role only if its
\* caller holds the admin grant at the check; and the grants change only in
\* the INSERT of such a call or in a direct write whose caller holds the
\* admin grant when the statement runs.
C20_GrantsChangeAfterAdminCheck ==
    [][/\ NonAdminAssignRefused
       /\ \A s \in Sessions :
              (Starts(s, "assign_role") /\ sess'[s].pc = "role_insert") =>
                  BagIn(<<sess'[s].uid, "admin">>, user_roles)
       /\ user_roles' # user_roles =>
              \E s \in Sessions :
                  /\ Steps(s)
                  /\ \/ sess[s].pc = "role_insert"
                     \/ /\ sess[s].pc = "idle"
                        /\ sess'[s].op \in {"insert_role", "delete_role"}
                        /\ BagIn(<<sess'[s].uid, "admin">>, user_roles)]_vars

\* a verified seller without the admin grant called assign_role and was refused
C20_Witness ==
    \E s \in Sessions :
        /\ sess[s].pc = "done"
        /\ sess[s].op = "assign_role"
        /\ sess[s].err = "Unauthorized"
        /\ BagIn(<<sess[s].uid, "seller_verified">>, user_roles)
        /\ ~BagIn(<<sess[s].uid, "admin">>, user_roles)

\* UNIQUE (user_id, role): no grant is on record twice
UniqueGrants(roles) == \A g \in BagToSet(roles) : CopiesIn(g, roles) = 1

\* C21: assign_role by an admin succeeds whether or not the grant exists;
\* when the grant exists the call changes nothing, otherwise it adds exactly
\* that grant; no (user, role) grant is ever on record twice.
C21_AssignIdempotent ==
    [][/\ UniqueGrants(user_roles')
       /\ \A s \in Sessions :
              (sess[s].pc = "role_insert" /\ Steps(s)) =>
                  LET g == <<sess[s].cur, sess[s].role>>
                  IN /\ sess'[s].pc = "done"
                     /\ sess'[s].err = "none"
                     /\ CopiesIn(g, user_roles) >= 1 => user_roles' = user_roles
                     /\ CopiesIn(g, user_roles) = 0 =>
                            /\ CopiesIn(g, user_roles') = 1
                            /\ \A h \in BagToSet(user_roles) \cup BagToSet(user_roles') :
                                   h # g => CopiesIn(h, user_roles') = CopiesIn(h, user_roles)]_vars

\* an assign_role call found its grant already on record and succeeded, and
\* the target holds two different roles
C21_Witness ==
    \E s \in Sessions :
        /\ sess[s].pc = "done"
        /\ sess[s].op = "assign_role"
        /\ sess[s].err = "none"
        /\ sess[s].had
        /\ CopiesIn(<<sess[s].cur, sess[s].role>>, user_roles) = 1
        /\ \E r \in GrantableRoles :
              r # sess[s].role /\ BagIn(<<sess[s].cur, r>>, user_roles)

\* C22: the transaction log only grows: every step of deposit, purchase and
\* distribution keeps each recorded transaction as it is (same wallet, type,
\* amount and references, as many times as before), and every transaction on
\* record has amount > 0 and one of the six types.
C22_LogAppendOnly ==
    [][/\ wallet_transactions \sqsubseteq wallet_transactions'
       /\ \A r \in BagToSet(wallet_transactions') :
              /\ r.amount > 0
              /\ r.type \in TxTypes]_vars

\* a deposit, a purchase and a profit credit are on record together
C22_Witness ==
    \A t \in {"deposit", "purchase", "profit"} :
        \E r \in BagToSet(wallet_transactions) : r.type = t

\* C23: no user ever has two wallets, whichever of the profile trigger,
\* deposit, purchase and distribution create the wallet and however their
\* calls interleave; and a wallet that comes into existence holds exactly
\* what the creating call put on it, that is, it started at 0.
C23_OneWalletPerUser ==
    [][\A u \in Users :
          /\ Len(wallets'[u]) <= 1
          /\ (Len(wallets[u]) = 0 /\ Len(wallets'[u]) = 1) =>
                 wallets'[u][1].balance
                     = (deposited'[u] - deposited[u]) + (credited'[u] - credited[u])]_vars

\* a call that went to create its caller's wallet lost to a concurrent
\* creation of the same wallet, and the user has one wallet
C23_Witness ==
    \E s \in Sessions :
        /\ sess[s].pc = "done"
        /\ sess[s].op \in {"deposit", "purchase"}
        /\ sess[s].err = "UniqueViolation"
        /\ Len(wallets[sess[s].uid]) = 1

\* C24: no update of a balance is lost.  Whatever committed on the wallet
\* since a call read it, the step that ends a successful deposit adds its
\* amount to the balance then on record, the step that ends a successful
\* purchase takes its cost from the balance then on record, and the step
\* that ends a distribution adds each holder's credit to the balance then on
\* record.
C24_NoLostUpdate ==
    [][\A s \in Sessions :
          /\ Finishes(s, "dep_write", "none") =>
                 WBal(wallets', sess[s].uid) = WBal(wallets, sess[s].uid) + sess[s].qty
          /\ Finishes(s, "pur_write", "none") =>
                 WBal(wallets', sess[s].uid) = WBal(wallets, sess[s].uid) - sess[s].v_cost
          /\ Finishes(s, "dist_loop", "none") =>
                 \A c \in sess[s].credits :
                     WBal(wallets', c.user_id) = WBal(wallets, c.user_id) + c.amount]_vars

\* a purchase succeeded on a wallet whose balance changed between the call's
\* read and its debit: the balance is not the one read minus the cost
C24_Witness ==
    \E s \in Sessions :
        /\ sess[s].pc = "done"
        /\ sess[s].op = "purchase"
        /\ sess[s].err = "none"
        /\ WBal(wallets, sess[s].uid) > sess[s].v_balance - sess[s].v_cost

\* C25: the error of a call is that of the first failing check.  A purchase
\* with tokenCount <= 0 ends with InvalidAmount whatever the property and the
\* funds are, and one with tokenCount > 0 on a missing or inactive property
\* ends with PropertyUnavailable whatever the funds are; a distribution by an
\* unauthorized caller ends with Unauthorized whatever amount and property it
\* names, and one by an authorized caller with an amount <= 0 ends with
\* InvalidAmount whether or not tokens are issued.
C25_FirstFailingCheck ==
    [][\A s \in Sessions :
          /\ Starts(s, "purchase") =>
                 /\ sess'[s].qty <= 0 =>
                        sess'[s].pc = "done" /\ sess'[s].err = "InvalidAmount"
                 /\ (sess'[s].qty > 0 /\ MissingOrInactive(sess'[s].prop)) =>
                        sess'[s].pc = "done" /\ sess'[s].err = "PropertyUnavailable"
          /\ Starts(s, "distribute") =>
                 /\ ~AdminOrOwningVerifiedSeller(sess'[s].uid, sess'[s].prop) =>
                        sess'[s].pc = "done" /\ sess'[s].err = "Unauthorized"
                 /\ (AdminOrOwningVerifiedSeller(sess'[s].uid, sess'[s].prop)
                       /\ sess'[s].qty <= 0) =>
                        sess'[s].pc = "done" /\ sess'[s].err = "InvalidAmount"]_vars

\* a purchase failing all three checks (tokenCount <= 0, missing or inactive
\* property, no funds) ended with InvalidAmount
C25_Witness ==
    \E s \in Sessions :
        /\ sess[s].pc = "done"
        /\ sess[s].op = "purchase"
        /\ sess[s].err = "InvalidAmount"
        /\ sess[s].qty <= 0
        /\ MissingOrInactive(sess[s].prop)
        /\ ~HasWallet(sess[s].uid)

\* C26: is_verified becomes true only in a step of a call made by an admin:
\* no insert or update by a user without the admin grant produces a property
\* with is_verified = true.
C26_VerifiedOnlyByAdmin ==
    [][\A p \in PropIds :
          (/\ properties'[p].exists
           /\ properties'[p].is_verified
           /\ ~(properties[p].exists /\ properties[p].is_verified)) =>
              \E s \in Sessions :
                  /\ Steps(s)
                  /\ sess'[s].prop = p
                  /\ BagIn(<<sess'[s].uid, "admin">>, user_roles)]_vars

\* a user without the admin grant has inserted a property that is verified
C26_Witness ==
    \E s \in Sessions :
        /\ sess[s].pc = "done"
        /\ sess[s].op = "insert_property"
        /\ sess[s].ret = 1
        /\ ~BagIn(<<sess[s].uid, "admin">>, user_roles)
        /\ properties[sess[s].prop].is_verified

\* the 'purchase' transactions that reference purchase row i
PurchaseTxOf(i) ==
    {r \in BagToSet(wallet_transactions) : r.type = "purchase" /\ r.purchase_id = i}

\* C27: every purchase row has exactly one 'purchase' transaction that
\* references it, on the buyer's wallet and of the purchase's total cost.
C27_PurchasesPaid ==
    \A i \in 1..Len(token_purchases) :
        /\ Cardinality(PurchaseTxOf(i)) = 1
        /\ \A r \in PurchaseTxOf(i) :
              /\ CopiesIn(r, wallet_transactions) = 1
              /\ r.wallet_id = WalletId(token_purchases[i].user_id)
              /\ r.amount = token_purchases[i].total_cost

\* a user holds tokens through a purchase row of the property page, has no
\* wallet and no transaction
C27_Witness ==
    \E i \in 1..Len(token_purchases) :
        /\ token_purchases[i].certificate_issued
        /\ PurchaseTxOf(i) = {}
        /\ ~HasWallet(token_purchases[i].user_id)

\* C28: for every property, tokens_sold is the sum of tokens_purchased over
\* the property's purchase rows.
C28_SoldEqualsIssued ==
    \A p \in PropIds :
        properties[p].exists =>
            properties[p].tokens_sold = TokensIn(token_purchases, p, Users)

\* session s is inside a purchase of tokens of a property it read at price 0
FreePurchase(s) ==
    /\ sess[s].op = "purchase"
    /\ sess[s].pc \in {"pur_wallet", "pur_insert", "pur_write"}
    /\ sess[s].qty > 0
    /\ sess[s].v_price = 0

\* C29 as stated: a purchase with tokenCount > 0 on an active property of
\* price 0 ends with the rejection of its 'purchase' transaction by the
\* amount > 0 rule, and no table changes.
C29_FreePurchaseRejectedByCheck ==
    [][\A s \in Sessions :
          (FreePurchase(s) /\ Steps(s)) =>
              /\ UNCHANGED db
              /\ sess'[s].pc = "done" => sess'[s].err = "CheckViolation"]_vars

\* C29 as amended: such a purchase never completes and changes no table; it
\* fails on the wallet (unique violation of a concurrent creation, or
\* insufficient funds on a balance below 0) or else, at its writes, by the
\* rejection of the 'purchase' transaction of amount 0.
C29_FreePurchaseFails ==
    [][\A s \in Sessions :
          (FreePurchase(s) /\ Steps(s)) =>
              /\ UNCHANGED db
              /\ sess'[s].pc = "done" =>
                     sess'[s].err \in {"CheckViolation", "UniqueViolation", "InsufficientFunds"}
              /\ sess[s].pc = "pur_write" =>
                     sess'[s].pc = "done" /\ sess'[s].err = "CheckViolation"
              /\ (sess'[s].pc = "done" /\ sess'[s].err = "InsufficientFunds") =>
                     WBal(wallets, sess[s].uid) < 0]_vars

\* a purchase of a price-0 property got as far as its writes, was rejected by
\* the amount > 0 rule, and left no purchase row and tokens_sold at 0
C29_Witness ==
    \E s \in Sessions :
        /\ sess[s].pc = "done"
        /\ sess[s].op = "purchase"
        /\ sess[s].err = "CheckViolation"
        /\ sess[s].qty > 0
        /\ properties[sess[s].prop].token_price = 0
        /\ properties[sess[s].prop].tokens_sold = 0
        /\ \A i \in 1..Len(token_purchases) :
              token_purchases[i].property_id # sess[s].prop

\* the operation whose call session s is taking a step of
OpOf(s) == IF sess[s].pc = "idle" THEN sess'[s].op ELSE sess[s].op

\* the users with a purchase row of property p
HoldersOf(p) ==
    {token_purchases[i].user_id :
        i \in {j \in 1..Len(token_purchases) : token_purchases[j].property_id = p}}

\* wallets and transaction logs change for the users of us only
OnlyWalletsOf(us) ==
    /\ \A v \in Users \ us : wallets'[v] = wallets[v]
    /\ \A r \in BagToSet(AddedTx) : \E v \in us : r.wallet_id = WalletId(v)
    /\ wallet_transactions \sqsubseteq wallet_transactions'

====
